---- MODULE Spec2Model ----
(***************************************************************************)
(* A model of build.js, the static site generator of the blog: the         *)
(* frontmatter parser, the slug generator, the HTML templater and the      *)
(* build orchestration.  Text is modelled as sequences of one-character    *)
(* strings so that trimming, splitting, joining and the regular-expression *)
(* replacements are computed as the code computes them.                    *)
(***************************************************************************)
EXTENDS Integers, Sequences, FiniteSets, TLC

(***************************************************************************)
(* Bounds of the model.                                                    *)
(***************************************************************************)
MaxLines == 4
MaxTitleLen == 4
MaxFiles == 2
MaxMtime == 2
MaxDate == 2
MaxTokens == 3

(***************************************************************************)
(* Text helpers: JavaScript string methods on sequences of characters.     *)
(***************************************************************************)
WhiteSpace == {" ", "\t"}

RECURSIVE TrimStart(_)
TrimStart(s) ==
    IF s # <<>> /\ Head(s) \in WhiteSpace THEN TrimStart(Tail(s)) ELSE s

RECURSIVE TrimEnd(_)
TrimEnd(s) ==
    IF s # <<>> /\ s[Len(s)] \in WhiteSpace
    THEN TrimEnd(SubSeq(s, 1, Len(s) - 1))
    ELSE s

\* String.prototype.trim(): strips white space at both ends
Trim(s) == TrimEnd(TrimStart(s))

\* String.prototype.includes(c) for a one-character needle
Includes(s, c) == \E k \in 1..Len(s) : s[k] = c

\* String.prototype.split(c): the segments between the occurrences of c
RECURSIVE Split(_, _)
Split(s, c) ==
    IF ~Includes(s, c) THEN <<s>>
    ELSE LET k == CHOOSE j \in 1..Len(s) :
                     s[j] = c /\ \A m \in 1..(j - 1) : s[m] # c
         IN <<SubSeq(s, 1, k - 1)>> \o Split(SubSeq(s, k + 1, Len(s)), c)

\* Array.prototype.join(sep): the parts with sep between them
RECURSIVE Join(_, _)
Join(parts, sep) ==
    IF parts = <<>> THEN <<>>
    ELSE IF Len(parts) = 1 THEN parts[1]
    ELSE parts[1] \o sep \o Join(Tail(parts), sep)

\* Array.prototype.slice(start): the elements from the 0-based index start
Slice(arr, start) == SubSeq(arr, start + 1, Len(arr))

(***************************************************************************)
(* parseMarkdownFile                                                       *)
(***************************************************************************)
Delimiter == <<"-", "-", "-">>
Colon == ":"
NewLine == <<"\n">>

\* const frontmatter = {}
EmptyFrontmatter == [k \in {} |-> <<>>]

\* frontmatter[key] = value, were a key already set to keep its value
SetKeyKeepFirst(fm, key, value) ==
    [k \in (DOMAIN fm) \cup {key} |-> IF k \in DOMAIN fm THEN fm[k] ELSE value]

\* frontmatter[key] = value
SetKey(fm, key, value) ==
    [k \in (DOMAIN fm) \cup {key} |-> IF k = key THEN value ELSE fm[k]]

\* const [key, ...valueParts] = line.split(':'); key.trim()
LineKey(line) == Trim(Split(line, Colon)[1])

\* the value, were it the text between the first colon and the second
LineValueSecondPart(line) == Trim(Split(line, Colon)[2])

\* valueParts.join(':').trim()
LineValue(line) == Trim(Join(Tail(Split(line, Colon)), <<Colon>>))

\* the state of the scanning loop before its first iteration
ParseStart ==
    [i |-> 0, frontmatter |-> EmptyFrontmatter, bodyStart |-> 0, brk |-> FALSE]

\* the loop condition, were the break forgotten
ParseRunningIgnoresBreak(ls, st) == st.i < Len(ls)

\* the loop condition: i < lines.length and no break taken
ParseRunning(ls, st) == ~st.brk /\ st.i < Len(ls)

\* the iteration, were the closing delimiter to set bodyStart without the break
ParseIterWithoutBreak(ls, st) ==
    LET line == Trim(ls[st.i + 1]) IN
    IF line = Delimiter
    THEN IF DOMAIN st.frontmatter = {}
         THEN [st EXCEPT !.i = st.i + 1]
         ELSE [st EXCEPT !.bodyStart = st.i + 1, !.i = st.i + 1]
    ELSE IF Includes(line, Colon)
    THEN [st EXCEPT !.frontmatter = SetKey(st.frontmatter, LineKey(line), LineValue(line)),
                    !.i = st.i + 1]
    ELSE [st EXCEPT !.i = st.i + 1]

\* one iteration of the scanning loop, on the line of 0-based index st.i
ParseIter(ls, st) ==
    LET line == Trim(ls[st.i + 1]) IN
    IF line = Delimiter
    THEN IF DOMAIN st.frontmatter = {}
         THEN [st EXCEPT !.i = st.i + 1]
         ELSE [st EXCEPT !.bodyStart = st.i + 1, !.brk = TRUE]
    ELSE IF Includes(line, Colon)
    THEN [st EXCEPT !.frontmatter = SetKey(st.frontmatter, LineKey(line), LineValue(line)),
                    !.i = st.i + 1]
    ELSE [st EXCEPT !.i = st.i + 1]

\* the scanning loop, run to its end from the state st
RECURSIVE ParseLoop(_, _)
ParseLoop(ls, st) ==
    IF ParseRunning(ls, st) THEN ParseLoop(ls, ParseIter(ls, st)) ELSE st

\* the body, were it to start where the scan stopped instead of at bodyStart
ExtractBodyFromScan(ls, st) == Join(Slice(ls, st.i), NewLine)

\* const body = lines.slice(bodyStart).join('\n')
ExtractBody(ls, st) == Join(Slice(ls, st.bodyStart), NewLine)

\* marked.parse: the external renderer, a black box from text to markup
MarkedParse(body) == << [markdown |-> body] >>

\* the value, were the body to start at the closing delimiter line itself
ParseResultFromDelimiter(ls, st) ==
    [frontmatter |-> st.frontmatter,
     body |-> MarkedParse(Join(Slice(ls, IF st.brk THEN st.bodyStart - 1 ELSE 0),
                               NewLine))]

\* the value parseMarkdownFile returns once the loop has ended in state st
ParseResult(ls, st) ==
    [frontmatter |-> st.frontmatter, body |-> MarkedParse(ExtractBody(ls, st))]

parseMarkdownFile(ls) == ParseResult(ls, ParseLoop(ls, ParseStart))

(***************************************************************************)
(* generateSlug                                                            *)
(***************************************************************************)
UpperCase ==
    << "A", "B", "C", "D", "E", "F", "G", "H", "I", "J", "K", "L", "M",
       "N", "O", "P", "Q", "R", "S", "T", "U", "V", "W", "X", "Y", "Z" >>
LowerCase ==
    << "a", "b", "c", "d", "e", "f", "g", "h", "i", "j", "k", "l", "m",
       "n", "o", "p", "q", "r", "s", "t", "u", "v", "w", "x", "y", "z" >>
Digits == {"0", "1", "2", "3", "4", "5", "6", "7", "8", "9"}
LowerSet == {LowerCase[k] : k \in 1..26}

LowerChar(c) ==
    IF \E k \in 1..26 : UpperCase[k] = c
    THEN LowerCase[CHOOSE k \in 1..26 : UpperCase[k] = c]
    ELSE c

\* String.prototype.toLowerCase()
ToLowerCase(s) == [k \in 1..Len(s) |-> LowerChar(s[k])]

\* the characters the class [a-z0-9 -] accepts
SlugKept == LowerSet \cup Digits \cup {" ", "-"}

\* the title, were no character stripped from it
StripOthersNothing(s) == s

\* .replace(/[^a-z0-9 -]/g, '')
RECURSIVE StripOthers(_)
StripOthers(s) ==
    IF s = <<>> THEN <<>>
    ELSE IF Head(s) \in SlugKept THEN <<Head(s)>> \o StripOthers(Tail(s))
    ELSE StripOthers(Tail(s))

\* .replace(X+/g, '-') for the character class X: each maximal run becomes one hyphen
RECURSIVE ReplaceRuns(_, _)
ReplaceRuns(s, X) ==
    IF s = <<>> THEN <<>>
    ELSE IF Head(s) \in X
    THEN IF Len(s) > 1 /\ s[2] \in X
         THEN ReplaceRuns(Tail(s), X)
         ELSE <<"-">> \o ReplaceRuns(Tail(s), X)
    ELSE <<Head(s)>> \o ReplaceRuns(Tail(s), X)

\* .trim('-'): String.prototype.trim takes no argument and ignores the one given
TrimIgnoringArgument(s) == Trim(s)

\* the slug, were the hyphen runs collapsed before the white space is replaced
generateSlugCollapseFirst(t) ==
    TrimIgnoringArgument(
        ReplaceRuns(ReplaceRuns(StripOthers(ToLowerCase(t)), {"-"}), WhiteSpace))

generateSlug(t) ==
    TrimIgnoringArgument(
        ReplaceRuns(ReplaceRuns(StripOthers(ToLowerCase(t)), WhiteSpace), {"-"}))

(***************************************************************************)
(* Literals of build.js                                                    *)
(***************************************************************************)
KeyTitle ==
    <<"t", "i", "t", "l", "e">>
KeyDate ==
    <<"d", "a", "t", "e">>
KeyReadTime ==
    <<"r", "e", "a", "d", "T", "i", "m", "e">>
KeySummary ==
    <<"s", "u", "m", "m", "a", "r", "y">>
KeyKeywords ==
    <<"k", "e", "y", "w", "o", "r", "d", "s">>
KeyImage ==
    <<"i", "m", "a", "g", "e">>
KeyAuthor ==
    <<"a", "u", "t", "h", "o", "r">>
UntitledPost ==
    <<"U", "n", "t", "i", "t", "l", "e", "d", " ", "P", "o", "s", "t">>
NoDate ==
    <<"N", "o", " ", "d", "a", "t", "e">>
DefaultReadTime ==
    <<"5", " ", "m", "i", "n", " ", "r", "e", "a", "d">>
NoSummary ==
    <<"N", "o", " ", "s", "u", "m", "m", "a", "r", "y", " ", "a", "v", "a",
      "i", "l", "a", "b", "l", "e", ".">>
BlogPost ==
    <<"B", "l", "o", "g", " ", "P", "o", "s", "t">>
DefaultDescription ==
    <<"T", "e", "c", "h", "n", "i", "c", "a", "l", " ", "b", "l", "o", "g",
      " ", "p", "o", "s", "t", " ", "b", "y", " ", "S", "n", "e", "h", "a",
      "l", " ", "R", "e", "d", "d", "y", " ", "o", "n", " ", "s", "y", "s",
      "t", "e", "m", "s", " ", "p", "r", "o", "g", "r", "a", "m", "m", "i",
      "n", "g", ",", " ", "C", "/", "C", "+", "+", ",", " ", "R", "u", "s",
      "t", ",", " ", "a", "n", "d", " ", "p", "e", "r", "f", "o", "r", "m",
      "a", "n", "c", "e", " ", "o", "p", "t", "i", "m", "i", "z", "a", "t",
      "i", "o", "n", ".">>
DefaultKeywords ==
    <<"s", "y", "s", "t", "e", "m", "s", " ", "p", "r", "o", "g", "r", "a",
      "m", "m", "i", "n", "g", ",", " ", "C", "+", "+", ",", " ", "R", "u",
      "s", "t", ",", " ", "p", "e", "r", "f", "o", "r", "m", "a", "n", "c",
      "e", " ", "o", "p", "t", "i", "m", "i", "z", "a", "t", "i", "o", "n",
      ",", " ", "l", "o", "w", "-", "l", "e", "v", "e", "l", " ", "p", "r",
      "o", "g", "r", "a", "m", "m", "i", "n", "g", ",", " ", "g", "a", "m",
      "e", " ", "s", "e", "r", "v", "e", "r", ",", " ", "m", "e", "m", "o",
      "r", "y", " ", "m", "a", "n", "a", "g", "e", "m", "e", "n", "t">>
Author ==
    <<"S", "n", "e", "h", "a", "l", " ", "R", "e", "d", "d", "y">>
DefaultImage ==
    <<"h", "t", "t", "p", "s", ":", "/", "/", "p", "-", "n", "o", "t", "-",
      "d", "o", "o", "m", ".", "c", "o", "m", "/", "i", "m", "a", "g", "e",
      "s", "/", "s", "n", "a", "k", "e", "-", "b", "a", "t", "t", "l", "e",
      "-", "r", "o", "y", "a", "l", "e", ".", "p", "n", "g">>
IndexTitle ==
    <<"S", "n", "e", "h", "a", "l", " ", "R", "e", "d", "d", "y", " ", "-",
      " ", "S", "y", "s", "t", "e", "m", "s", " ", "P", "r", "o", "g", "r",
      "a", "m", "m", "i", "n", "g", " ", "&", " ", "P", "e", "r", "f", "o",
      "r", "m", "a", "n", "c", "e", " ", "O", "p", "t", "i", "m", "i", "z",
      "a", "t", "i", "o", "n">>
Origin ==
    <<"h", "t", "t", "p", "s", ":", "/", "/", "p", "-", "n", "o", "t", "-",
      "d", "o", "o", "m", ".", "c", "o", "m">>
MdExtension ==
    <<".", "m", "d">>
HtmlExtension ==
    <<".", "h", "t", "m", "l">>
PagesUrlPath ==
    <<"/", "p", "a", "g", "e", "s", "/">>
PagesPrefix ==
    <<"p", "a", "g", "e", "s", "/">>
PagesImagesPrefix ==
    <<"p", "a", "g", "e", "s", "/", "i", "m", "a", "g", "e", "s", "/">>
IndexPath ==
    <<"i", "n", "d", "e", "x", ".", "h", "t", "m", "l">>
SitemapPath ==
    <<"s", "i", "t", "e", "m", "a", "p", ".", "x", "m", "l">>
BackPng ==
    <<"b", "a", "c", "k", ".", "p", "n", "g">>
APng ==
    <<"a", ".", "p", "n", "g">>
FileP ==
    <<"p", ".", "m", "d">>
FileQ ==
    <<"q", ".", "m", "d">>
FileAX ==
    <<"a", ".", "m", "d", "x", ".", "m", "d">>
FileNotes ==
    <<"n", ".", "t", "x", "t">>
SubDir ==
    <<"s", "u", "b">>
SubDirFile ==
    <<"s", "u", "b", "/", "x", ".", "p", "n", "g">>
(***************************************************************************)
(* generateHTMLTemplate, generatePostSummaryHTML, generatePostPage         *)
(***************************************************************************)
\* frontmatter.key: the value, or undefined (here the empty text, equally falsy)
Field(fm, key) == IF key \in DOMAIN fm THEN fm[key] ELSE <<>>

\* frontmatter.key with the fallback forgotten
OrElseNothing(fm, key, fallback) == Field(fm, key)

\* frontmatter.key || fallback: the fallback when the key is absent or its value empty
OrElse(fm, key, fallback) ==
    IF Field(fm, key) # <<>> THEN Field(fm, key) ELSE fallback

\* the url of the template: built from the slug of the title the template is given
TemplateUrl(t, isPost) ==
    IF isPost THEN Origin \o PagesUrlPath \o generateSlug(t) \o HtmlExtension
    ELSE Origin

\* the document, were the description the canned literal whatever the frontmatter
generateHTMLTemplateCannedDescription(t, content, isPost, fm) ==
    [ title        |-> t,
      description  |-> DefaultDescription,
      keywords     |-> OrElse(fm, KeyKeywords, DefaultKeywords),
      author       |-> Author,
      ogTitle      |-> t,
      ogType       |-> IF isPost THEN "article" ELSE "website",
      ogUrl        |-> TemplateUrl(t, isPost),
      image        |-> OrElse(fm, KeyImage, DefaultImage),
      twitterTitle |-> t,
      canonical    |-> TemplateUrl(t, isPost),
      backLink     |-> isPost,
      content      |-> content ]

\* the interpolated values of the document generateHTMLTemplate returns
generateHTMLTemplate(t, content, isPost, fm) ==
    [ title        |-> t,
      description  |-> OrElse(fm, KeySummary, DefaultDescription),
      keywords     |-> OrElse(fm, KeyKeywords, DefaultKeywords),
      author       |-> Author,
      ogTitle      |-> t,
      ogType       |-> IF isPost THEN "article" ELSE "website",
      ogUrl        |-> TemplateUrl(t, isPost),
      image        |-> OrElse(fm, KeyImage, DefaultImage),
      twitterTitle |-> t,
      canonical    |-> TemplateUrl(t, isPost),
      backLink     |-> isPost,
      content      |-> content ]

\* the href, were it relative to the pages directory instead of the site root
SummaryHrefInsidePages(s) == s \o HtmlExtension

\* the href of a summary block: pages/${slug}.html
SummaryHref(s) == PagesPrefix \o s \o HtmlExtension

generatePostSummaryHTML(post, s) ==
    [ href        |-> SummaryHref(s),
      date        |-> OrElse(post.frontmatter, KeyDate, NoDate),
      readTime    |-> OrElse(post.frontmatter, KeyReadTime, DefaultReadTime),
      postTitle   |-> OrElse(post.frontmatter, KeyTitle, UntitledPost),
      postSummary |-> OrElse(post.frontmatter, KeySummary, NoSummary) ]

\* one token of rendered markup
TableOpen == [tag |-> "<table>"]
TableClose == [tag |-> "</table>"]
WrapperOpen == [tag |-> "<div class=\"table-wrapper\">"]
WrapperClose == [tag |-> "</div>"]

\* the two replacements without the g flag: only the first occurrence of each tag
WrapTablesFirstOnly(body) ==
    LET first(tok) == {k \in 1..Len(body) :
                         body[k] = tok /\ \A m \in 1..(k - 1) : body[m] # tok}
        piece(k) == IF k \in first(TableOpen) THEN <<WrapperOpen, TableOpen>>
                    ELSE IF k \in first(TableClose) THEN <<TableClose, WrapperClose>>
                    ELSE <<body[k]>>
        cat[k \in 0..Len(body)] == IF k = 0 THEN <<>> ELSE cat[k - 1] \o piece(k)
    IN cat[Len(body)]

\* body.replace(/<table>/g, ...).replace(/<\/table>/g, ...)
RECURSIVE WrapTables(_)
WrapTables(body) ==
    IF body = <<>> THEN <<>>
    ELSE IF Head(body) = TableOpen
    THEN <<WrapperOpen, TableOpen>> \o WrapTables(Tail(body))
    ELSE IF Head(body) = TableClose
    THEN <<TableClose, WrapperClose>> \o WrapTables(Tail(body))
    ELSE <<Head(body)>> \o WrapTables(Tail(body))

\* the title generatePostPage hands to the template
PageTitle(fm) == OrElse(fm, KeyTitle, BlogPost)

\* the content generatePostPage assembles
PostContent(post) ==
    [ h1          |-> OrElse(post.frontmatter, KeyTitle, UntitledPost),
      date        |-> OrElse(post.frontmatter, KeyDate, NoDate),
      readTime    |-> OrElse(post.frontmatter, KeyReadTime, DefaultReadTime),
      postContent |-> WrapTables(post.body) ]

generatePostPage(post, s) ==
    generateHTMLTemplate(PageTitle(post.frontmatter), PostContent(post), TRUE,
                         post.frontmatter)

(***************************************************************************)
(* generateSitemap                                                         *)
(***************************************************************************)
SitemapRoot(currentDate) ==
    [ loc |-> Origin \o <<"/">>, lastmod |-> currentDate,
      changefreq |-> "weekly", priority |-> "1.0" ]

SitemapPostUrl(post) == Origin \o PagesUrlPath \o post.slug \o HtmlExtension

\* the entry, were its lastmod the date of the post's frontmatter when it has one
SitemapEntryFrontmatterDate(post, currentDate) ==
    [ loc |-> SitemapPostUrl(post),
      lastmod |-> IF Field(post.frontmatter, KeyDate) = <<"1">> THEN 1
                  ELSE IF Field(post.frontmatter, KeyDate) = <<"2">> THEN 2
                  ELSE currentDate,
      changefreq |-> "monthly", priority |-> "0.8" ]

SitemapEntry(post, currentDate) ==
    [ loc |-> SitemapPostUrl(post), lastmod |-> currentDate,
      changefreq |-> "monthly", priority |-> "0.8" ]

generateSitemapWithoutRoot(ps, currentDate) ==
    [ urlset |-> [k \in 1..Len(ps) |-> SitemapEntry(ps[k], currentDate)] ]

generateSitemap(ps, currentDate) ==
    [ urlset |-> <<SitemapRoot(currentDate)>>
                 \o [k \in 1..Len(ps) |-> SitemapEntry(ps[k], currentDate)] ]

(***************************************************************************)
(* buildHTML: the helpers of the orchestration                             *)
(***************************************************************************)
\* String.prototype.endsWith(suffix)
EndsWith(s, suffix) ==
    /\ Len(s) >= Len(suffix)
    /\ SubSeq(s, Len(s) - Len(suffix) + 1, Len(s)) = suffix

\* String.prototype.replace(pat, '') with a string pattern: the first occurrence only
RemoveFirst(s, pat) ==
    LET occ == {k \in 1..(Len(s) - Len(pat) + 1) : SubSeq(s, k, k + Len(pat) - 1) = pat}
    IN IF occ = {} THEN s
       ELSE LET k == CHOOSE j \in occ : \A m \in occ : j <= m
            IN SubSeq(s, 1, k - 1) \o SubSeq(s, k + Len(pat), Len(s))

\* the comparator with its operands exchanged: oldest first
CompareMtimeAscending(dir, a, b) == dir[a].mtime - dir[b].mtime

\* the comparator of the sort: bStats.mtime.getTime() - aStats.mtime.getTime()
CompareMtime(dir, a, b) == dir[b].mtime - dir[a].mtime

\* a result the sort can return: no pair is left in the order the comparator rejects
IsSorted(dir, names) ==
    \A x, y \in 1..Len(names) : x < y => CompareMtime(dir, names[x], names[y]) <= 0

\* the ways fs.readdirSync can list a set of names
Listings(S) ==
    {l \in [1..Cardinality(S) -> S] : \A x, y \in 1..Cardinality(S) : x # y => l[x] # l[y]}

\* the listing with the .md filter left out
MarkdownFilesUnfiltered(dir) ==
    {l \in Listings(DOMAIN dir) : IsSorted(dir, l)}

\* readdirSync(postsDir).filter(file => file.endsWith('.md')).sort(...)
MarkdownFilesOf(dir) ==
    {l \in Listings({n \in DOMAIN dir : EndsWith(n, MdExtension)}) : IsSorted(dir, l)}

\* the slug of a post: generateSlug(post.frontmatter.title || filename.replace('.md', ''))
PostSlug(fm, filename) ==
    generateSlug(OrElse(fm, KeyTitle, RemoveFirst(filename, MdExtension)))

\* one element of posts: { filename, slug, ...post }
MakePost(dir, filename) ==
    LET post == parseMarkdownFile(dir[filename].doc) IN
    [ filename    |-> filename,
      slug        |-> PostSlug(post.frontmatter, filename),
      frontmatter |-> post.frontmatter,
      body        |-> post.body ]

\* path.join(pagesDir, `${post.slug}.html`)
PagePath(s) == PagesPrefix \o s \o HtmlExtension

\* a write that keeps the content of a file that exists (the flag 'wx' without its error)
WriteFileKeepExisting(d, path, content) ==
    [p \in (DOMAIN d) \cup {path} |-> IF p \in DOMAIN d THEN d[p] ELSE content]

\* fs.writeFileSync(path, content): creates the file or replaces its content
WriteFile(d, path, content) ==
    [p \in (DOMAIN d) \cup {path} |-> IF p = path THEN content ELSE d[p]]

\* the content of the home page
IndexContent(ps) ==
    [summaries |-> [k \in 1..Len(ps) |-> generatePostSummaryHTML(ps[k], ps[k].slug)]]

IndexHTML(ps) == generateHTMLTemplate(IndexTitle, IndexContent(ps), FALSE, EmptyFrontmatter)

(***************************************************************************)
(* Inputs                                                                  *)
(***************************************************************************)
\* sequences over S of length at most n
SeqsUpTo(S, n) == UNION {[1..m -> S] : m \in 0..n}

\* the lines documents are made of
LineSet ==
    { <<"-", "-", "-">>,
      <<" ", "-", "-", "-", " ">>,
      <<"a", ":", " ", "x">>,
      <<"a", ":", "y", ":", "z">>,
      <<"b", " ", ":", "w">>,
      <<"t", "e", "x", "t">>,
      <<>> }

\* content.split('\n') has at least one element
Documents == SeqsUpTo(LineSet, MaxLines) \ {<<>>}

TitleChars == {"a", "B", "1", " ", "\t", "-", "!"}
Titles == SeqsUpTo(TitleChars, MaxTitleLen)

(***************************************************************************)
(* Inputs of a build                                                       *)
(***************************************************************************)
DocTitled ==
    << <<"-", "-", "-">>,
       <<"t", "i", "t", "l", "e", ":", " ", "A", " ", "b">>,
       <<"d", "a", "t", "e", ":", " ", "2">>,
       <<"-", "-", "-">>,
       <<"x">> >>
DocTitledLower ==
    << <<"-", "-", "-">>,
       <<"t", "i", "t", "l", "e", ":", " ", "a", " ", "b">>,
       <<"d", "a", "t", "e", ":", " ", "1">>,
       <<"r", "e", "a", "d", "T", "i", "m", "e", ":", " ", "9">>,
       <<"s", "u", "m", "m", "a", "r", "y", ":", " ", "s">>,
       <<"k", "e", "y", "w", "o", "r", "d", "s", ":", " ", "k">>,
       <<"i", "m", "a", "g", "e", ":", " ", "i">>,
       <<"a", "u", "t", "h", "o", "r", ":", " ", "u">>,
       <<"-", "-", "-">>,
       <<"y">> >>
DocPlain ==
    << <<"z">> >>
PostDocs == {DocTitled, DocTitledLower, DocPlain}

\* the names a content file can have, and one file the filter rejects
FileNames == {FileP, FileQ, FileAX}

\* a file of the posts directory: its modification time and its lines
FileOf(m, d) == [mtime |-> m, doc |-> d]

\* the posts directories: at most MaxFiles content files, beside n.txt
PostsDirs ==
    { dir \in UNION {[S \cup {FileNotes} -> {FileOf(m, d) : m \in 1..MaxMtime, d \in PostDocs}] :
                        S \in SUBSET FileNames} :
        /\ Cardinality(DOMAIN dir \cap FileNames) <= MaxFiles
        /\ dir[FileNotes] = FileOf(MaxMtime, DocPlain) }

\* the images directory: absent, or holding the files names, the
\* subdirectories subdirs, and the files nested below those subdirectories
NoImages == [exists |-> FALSE, names |-> {}, subdirs |-> {}, nested |-> {}]
ImagesDirs ==
    { NoImages,
      [exists |-> TRUE, names |-> {APng, BackPng}, subdirs |-> {}, nested |-> {}],
      [exists |-> TRUE, names |-> {APng}, subdirs |-> {SubDir},
       nested |-> {SubDirFile}] }

\* the tokens of rendered markup, and the bodies marked can return
Tokens == {TableOpen, TableClose, WrapperOpen, WrapperClose, [tag |-> "<p>"]}
RenderedBodies == SeqsUpTo(Tokens, MaxTokens)

\* the dates new Date() can give the sitemap
Dates == 1..MaxDate

(***************************************************************************)
(* State                                                                   *)
(***************************************************************************)
VARIABLES
    lines,          \* the lines of the document being parsed
    pst,            \* the state of the parser's scanning loop
    parsed,         \* what parseMarkdownFile returned, or NoValue
    title,          \* the argument of generateSlug
    slug,           \* what generateSlug returned
    spc,            \* "call" before generateSlug has run, "returned" after
    files,          \* the posts directory: file name -> [mtime, doc]
    images,         \* the images directory
    dirs,           \* the directories that exist among posts, pages, pages/images
    pc,             \* the step the build is at
    markdownFiles,  \* buildHTML's sorted list of content file names
    posts,          \* buildHTML's list of parsed posts
    next,           \* the index in posts of the next page to write
    disk,           \* the generated files: path -> content
    writes,         \* the paths of the files this run has written, in order
    prev,           \* NoValue in a first run; in a rerun, what the run before left
    rendered,       \* the rendered body handed to the table wrapping
    wrapped,        \* the body after the table wrapping
    wpc             \* "call" before the table wrapping has run, "returned" after

vars ==
    << lines, pst, parsed, title, slug, spc, files, images, dirs, pc,
       markdownFiles, posts, next, disk, writes, prev, rendered, wrapped, wpc >>

NoValue == [none |-> TRUE]

parserVars == <<lines, pst, parsed>>
slugVars == <<title, slug, spc>>
tableVars == <<rendered, wrapped, wpc>>
pureVars == <<parserVars, slugVars, tableVars>>
buildVars == <<files, images, dirs, pc, markdownFiles, posts, next, disk, writes, prev>>

EmptyDisk == [p \in {} |-> NoValue]

ParserIdle == lines = <<>> /\ pst = ParseStart /\ parsed = NoValue
SlugIdle == title = <<>> /\ slug = <<>> /\ spc = "idle"
TablesIdle == rendered = <<>> /\ wrapped = <<>> /\ wpc = "idle"
BuildIdle ==
    /\ files = EmptyDisk
    /\ images = NoImages
    /\ dirs = {}
    /\ pc = "idle"
    /\ markdownFiles = <<>>
    /\ posts = <<>>
    /\ next = 1
    /\ disk = EmptyDisk
    /\ writes = <<>>
    /\ prev = NoValue

(***************************************************************************)
(* The parser on every document                                            *)
(***************************************************************************)
InitParser ==
    /\ lines \in Documents
    /\ pst = ParseStart
    /\ parsed = NoValue
    /\ SlugIdle
    /\ TablesIdle
    /\ BuildIdle

\* one iteration of the for loop
ParseStep ==
    /\ parsed = NoValue
    /\ ParseRunning(lines, pst)
    /\ pst' = ParseIter(lines, pst)
    /\ UNCHANGED <<lines, parsed, slugVars, tableVars, buildVars>>

\* the loop has ended: extract the body and return
ParseReturn ==
    /\ parsed = NoValue
    /\ ~ParseRunning(lines, pst)
    /\ parsed' = ParseResult(lines, pst)
    /\ UNCHANGED <<lines, pst, slugVars, tableVars, buildVars>>

NextParser == ParseStep \/ ParseReturn

SpecParser == InitParser /\ [][NextParser]_vars

\* parseMarkdownFile from its call on: the document is not read yet
InitParserCall ==
    /\ lines = <<>>
    /\ pst = ParseStart
    /\ parsed = NoValue
    /\ SlugIdle
    /\ TablesIdle
    /\ BuildIdle

\* const content = fs.readFileSync(filePath, 'utf8'); const lines = content.split('\n')
ReadContent ==
    /\ lines = <<>>
    /\ lines' \in Documents
    /\ UNCHANGED <<pst, parsed, slugVars, tableVars, buildVars>>

NextParserCall ==
    \/ ReadContent
    \/ lines # <<>> /\ ParseStep
    \/ lines # <<>> /\ ParseReturn

\* ENABLED <<ParseStep>>_vars, written out: the loop runs and its iteration changes pst
ParseStepEnabled ==
    /\ lines # <<>>
    /\ parsed = NoValue
    /\ ParseRunning(lines, pst)
    /\ ParseIter(lines, pst) # pst

\* parseMarkdownFile is synchronous code: once called it runs on until it returns.
\* The last conjunct is WF_vars(ParseStep) with its ENABLED written out.
SpecParserFair ==
    /\ InitParserCall
    /\ [][NextParserCall]_vars
    /\ WF_vars(ReadContent)
    /\ WF_vars(lines # <<>> /\ ParseReturn)
    /\ ([]<>(~ParseStepEnabled) \/ []<><<lines # <<>> /\ ParseStep>>_vars)

(***************************************************************************)
(* The slug generator on every title                                       *)
(***************************************************************************)
InitSlug ==
    /\ title \in Titles
    /\ slug = <<>>
    /\ spc = "call"
    /\ ParserIdle
    /\ TablesIdle
    /\ BuildIdle

GenerateSlug ==
    /\ spc = "call"
    /\ slug' = generateSlug(title)
    /\ spc' = "returned"
    /\ UNCHANGED <<title, parserVars, tableVars, buildVars>>

NextSlug == GenerateSlug

SpecSlug == InitSlug /\ [][NextSlug]_vars

(***************************************************************************)
(* One run of build.js                                                     *)
(***************************************************************************)
Init ==
    /\ files \in PostsDirs
    /\ images \in ImagesDirs
    /\ dirs \in {{"posts"}, {"posts", "pages"}}
    /\ pc = "start"
    /\ markdownFiles = <<>>
    /\ posts = <<>>
    /\ next = 1
    /\ disk = EmptyDisk
    /\ writes = <<>>
    /\ prev = NoValue
    /\ ParserIdle
    /\ SlugIdle
    /\ TablesIdle

\* one file write: the path and the content written
Written(path, content) == [path |-> path, content |-> content]

\* the top level, were it to empty the pages directory before the build
EnsureDirsCleaning ==
    /\ pc = "start"
    /\ dirs' = dirs \cup {"posts", "pages"}
    /\ disk' = [p \in {q \in DOMAIN disk :
                         \/ Len(q) < Len(PagesPrefix)
                         \/ SubSeq(q, 1, Len(PagesPrefix)) # PagesPrefix} |-> disk[p]]
    /\ pc' = "discover"
    /\ UNCHANGED <<files, images, markdownFiles, posts, next, writes,
                   prev, pureVars>>

\* module top level: create the posts and pages directories if they do not exist
EnsureDirs ==
    /\ pc = "start"
    /\ dirs' = dirs \cup {"posts", "pages"}
    /\ pc' = "discover"
    /\ UNCHANGED <<files, images, markdownFiles, posts, next, disk, writes,
                   prev, pureVars>>

\* buildHTML: list the posts directory, keep the .md files, sort them; over a
\* directory nothing has changed, a rerun is given the listing of the run before
Discover ==
    /\ pc = "discover"
    /\ markdownFiles' \in (IF prev = NoValue THEN MarkdownFilesOf(files)
                           ELSE {prev.markdownFiles})
    /\ pc' = "parse"
    /\ UNCHANGED <<files, images, dirs, posts, next, disk, writes,
                   prev, pureVars>>

\* the parsing, were each post's page written as soon as the post is parsed
ParsePostsWritingEach ==
    /\ pc = "parse"
    /\ IF Len(posts) < Len(markdownFiles)
       THEN LET post == MakePost(files, markdownFiles[Len(posts) + 1]) IN
            /\ posts' = Append(posts, post)
            /\ disk' = WriteFile(disk, PagePath(post.slug),
                                 generatePostPage(post, post.slug))
            /\ writes' = Append(writes, PagePath(post.slug))
            /\ pc' = "parse"
       ELSE /\ pc' = "assets"
            /\ UNCHANGED <<posts, disk, writes>>
    /\ UNCHANGED <<files, images, dirs, markdownFiles, next, prev, pureVars>>

\* buildHTML: const posts = markdownFiles.map(...)
ParsePosts ==
    /\ pc = "parse"
    /\ posts' = [k \in 1..Len(markdownFiles) |-> MakePost(files, markdownFiles[k])]
    /\ next' = 1
    /\ pc' = IF markdownFiles = <<>> THEN "assets" ELSE "pages"
    /\ UNCHANGED <<files, images, dirs, markdownFiles, disk, writes,
                   prev, pureVars>>

\* the iteration, were the page appended to the file the path already names
WritePageAppending ==
    /\ pc = "pages"
    /\ LET post == posts[next]
           postHTML == generatePostPage(post, post.slug)
           path == PagePath(post.slug)
       IN /\ disk' = IF path \in DOMAIN disk
                     THEN [disk EXCEPT ![path] = [appended |-> <<@, postHTML>>]]
                     ELSE WriteFile(disk, path, postHTML)
          /\ writes' = Append(writes, path)
    /\ next' = next + 1
    /\ pc' = IF next = Len(posts) THEN "assets" ELSE "pages"
    /\ UNCHANGED <<files, images, dirs, markdownFiles, posts, prev, pureVars>>

\* buildHTML: one iteration of posts.forEach: render the page and write it
WritePage ==
    /\ pc = "pages"
    /\ LET post == posts[next]
           postHTML == generatePostPage(post, post.slug)
       IN /\ disk' = WriteFile(disk, PagePath(post.slug), postHTML)
          /\ writes' = Append(writes, PagePath(post.slug))
    /\ next' = next + 1
    /\ pc' = IF next = Len(posts) THEN "assets" ELSE "pages"
    /\ UNCHANGED <<files, images, dirs, markdownFiles, posts, prev, pureVars>>

\* the content of a copied asset: that of its source
Asset(name) == [asset |-> name]

\* the entries fs.readdirSync lists in the images directory
ImageEntries == images.names \cup images.subdirs

\* the copies copyStaticAssets makes, for one listing of the images directory
AssetCopies(listing) ==
    [k \in 1..Len(listing) |->
        Written(PagesImagesPrefix \o listing[k], Asset(listing[k]))]
    \o (IF BackPng \in images.names
        THEN <<Written(BackPng, Asset(BackPng))>>
        ELSE <<>>)

\* the copies of a listing that fs.copyFileSync can make: it throws when it is
\* handed a directory, so all of them only when no entry is a subdirectory
CopiesBeforeDirectory(listing) ==
    LET ds == {k \in 1..Len(listing) : listing[k] \in images.subdirs}
    IN IF ds = {} THEN Len(AssetCopies(listing))
       ELSE (CHOOSE k \in ds : \A m \in ds : k <= m) - 1

\* the disk after a sequence of writes
RECURSIVE ApplyWrites(_, _)
ApplyWrites(d, ws) ==
    IF ws = <<>> THEN d
    ELSE ApplyWrites(WriteFile(d, Head(ws).path, Head(ws).content), Tail(ws))

\* the paths of a sequence of writes
PathsOf(ws) == [k \in 1..Len(ws) |-> ws[k].path]

\* copyStaticAssets, every call returning
CopyStaticAssets ==
    /\ pc = "assets"
    /\ IF images.exists
       THEN \E listing \in Listings(ImageEntries) :
               /\ CopiesBeforeDirectory(listing) = Len(AssetCopies(listing))
               /\ disk' = ApplyWrites(disk, AssetCopies(listing))
               /\ writes' = writes \o PathsOf(AssetCopies(listing))
               /\ dirs' = dirs \cup {"pages/images"}
       ELSE UNCHANGED <<disk, writes, dirs>>
    /\ pc' = "index"
    /\ UNCHANGED <<files, images, markdownFiles, posts, next, prev, pureVars>>

\* copyStaticAssets, a call throwing after n copies: fs.mkdirSync or fs.readdirSync
\* before any copy, or fs.copyFileSync on an entry, as it must on a subdirectory
CopyStaticAssetsThrows ==
    /\ pc = "assets"
    /\ images.exists
    /\ \E listing \in Listings(ImageEntries) :
          \E n \in 0..(Len(AssetCopies(listing)) - 1) :
             /\ n <= CopiesBeforeDirectory(listing)
             /\ disk' = ApplyWrites(disk, SubSeq(AssetCopies(listing), 1, n))
             /\ writes' = writes \o PathsOf(SubSeq(AssetCopies(listing), 1, n))
             /\ dirs' \in (IF n = 0 THEN {dirs, dirs \cup {"pages/images"}}
                           ELSE {dirs \cup {"pages/images"}})
    /\ pc' = "failed"
    /\ UNCHANGED <<files, images, markdownFiles, posts, next, prev, pureVars>>

\* index.html, were it written as soon as the posts are parsed, before the pages
WriteIndexBeforePages ==
    /\ pc = "pages"
    /\ next = 1
    /\ writes = <<>>
    /\ disk' = WriteFile(disk, IndexPath, IndexHTML(posts))
    /\ writes' = Append(writes, IndexPath)
    /\ UNCHANGED <<files, images, dirs, pc, markdownFiles, posts, next,
                   prev, pureVars>>

\* buildHTML: generate and write index.html
WriteIndex ==
    /\ pc = "index"
    /\ disk' = WriteFile(disk, IndexPath, IndexHTML(posts))
    /\ writes' = Append(writes, IndexPath)
    /\ pc' = "sitemap"
    /\ UNCHANGED <<files, images, dirs, markdownFiles, posts, next,
                   prev, pureVars>>

\* sitemap.xml, were it written in a finally clause, after a failure too
WriteSitemapEvenAfterFailure ==
    /\ pc \in {"sitemap", "failed"}
    /\ \E currentDate \in Dates :
          /\ disk' = WriteFile(disk, SitemapPath, generateSitemap(posts, currentDate))
          /\ writes' = Append(writes, SitemapPath)
    /\ pc' = "done"
    /\ UNCHANGED <<files, images, dirs, markdownFiles, posts, next,
                   prev, pureVars>>

\* buildHTML: generate and write sitemap.xml
WriteSitemap ==
    /\ pc = "sitemap"
    /\ \E currentDate \in Dates :
          /\ disk' = WriteFile(disk, SitemapPath, generateSitemap(posts, currentDate))
          /\ writes' = Append(writes, SitemapPath)
    /\ pc' = "done"
    /\ UNCHANGED <<files, images, dirs, markdownFiles, posts, next,
                   prev, pureVars>>

\* the throw, were it caught by a handler that removes what the run has written
IoErrorWithCleanup ==
    /\ pc \in {"start", "discover", "parse", "pages", "index", "sitemap"}
    /\ pc' = "failed"
    /\ disk' = [p \in {q \in DOMAIN disk : \A k \in 1..Len(writes) : writes[k] # q}
                  |-> disk[p]]
    /\ UNCHANGED <<files, images, dirs, markdownFiles, posts, next, writes,
                   prev, pureVars>>

\* a filesystem call of the current step throws: the exception is not caught
IoError ==
    /\ pc \in {"start", "discover", "parse", "pages", "index", "sitemap"}
    /\ pc' = "failed"
    /\ UNCHANGED <<files, images, dirs, markdownFiles, posts, next, disk, writes,
                   prev, pureVars>>

Next ==
    \/ EnsureDirs
    \/ Discover
    \/ ParsePosts
    \/ WritePage
    \/ CopyStaticAssets
    \/ CopyStaticAssetsThrows
    \/ WriteIndex
    \/ WriteSitemap
    \/ IoError

Spec == Init /\ [][Next]_vars

(***************************************************************************)
(* build.js run twice on the same inputs                                   *)
(***************************************************************************)
\* node build.js once more, after a run that completed: a new process, over the
\* same posts and images and over the output the first run left
Restart ==
    /\ pc = "done"
    /\ prev = NoValue
    /\ prev' = [disk |-> disk, markdownFiles |-> markdownFiles]
    /\ pc' = "start"
    /\ markdownFiles' = <<>>
    /\ posts' = <<>>
    /\ next' = 1
    /\ writes' = <<>>
    /\ UNCHANGED <<files, images, dirs, disk, pureVars>>

NextRerun ==
    \/ EnsureDirs
    \/ Discover
    \/ ParsePosts
    \/ WritePage
    \/ CopyStaticAssets
    \/ CopyStaticAssetsThrows
    \/ WriteIndex
    \/ WriteSitemap
    \/ IoError
    \/ Restart

SpecRerun == Init /\ [][NextRerun]_vars

(***************************************************************************)
(* The table wrapping on every rendered body                               *)
(***************************************************************************)
InitTables ==
    /\ rendered \in RenderedBodies
    /\ wrapped = <<>>
    /\ wpc = "call"
    /\ ParserIdle
    /\ SlugIdle
    /\ BuildIdle

\* generatePostPage: const wrappedBody = post.body.replace(...).replace(...)
WrapBody ==
    /\ wpc = "call"
    /\ wrapped' = WrapTables(rendered)
    /\ wpc' = "returned"
    /\ UNCHANGED <<rendered, parserVars, slugVars, buildVars>>

NextTables == WrapBody

SpecTables == InitTables /\ [][NextTables]_vars

(***************************************************************************)
(* One run of build.js over an output tree that already holds files        *)
(***************************************************************************)
\* the content of a file an earlier build, or anyone, left at the path
Stale(path) == [stale |-> path]

\* the output tree before the run: the page of a post that is no longer there, a
\* page the run may write again, and index.html
OldSlug == <<"o", "l", "d">>
StaleDisk ==
    [p \in {PagePath(OldSlug), PagePath(<<"a", "-", "b">>), IndexPath} |-> Stale(p)]

\* the posts directories whose content files all have the modification time 1
StalePostsDirs ==
    {dir \in PostsDirs : \A n \in DOMAIN dir \cap FileNames : dir[n].mtime = 1}

InitStale ==
    /\ files \in StalePostsDirs
    /\ images \in ImagesDirs
    /\ dirs = {"posts", "pages"}
    /\ pc = "start"
    /\ markdownFiles = <<>>
    /\ posts = <<>>
    /\ next = 1
    /\ disk = StaleDisk
    /\ writes = <<>>
    /\ prev = NoValue
    /\ ParserIdle
    /\ SlugIdle
    /\ TablesIdle

SpecStale == InitStale /\ [][Next]_vars

(***************************************************************************)
(* The document format, read off the lines of a document                   *)
(***************************************************************************)
\* a line that trims to exactly '---'
IsDelimiterLine(l) == Trim(l) = Delimiter

\* a line the loop takes for a key: not a delimiter, and holding a colon
IsColonLine(l) == ~IsDelimiterLine(l) /\ Includes(Trim(l), Colon)

ColonLines(ls) == {k \in 1..Len(ls) : IsColonLine(ls[k])}

\* the delimiter lines met while no key has been parsed: they open the block
OpeningLines(ls) ==
    {j \in 1..Len(ls) : IsDelimiterLine(ls[j]) /\ \A k \in ColonLines(ls) : k > j}

\* the delimiter lines met once a key has been parsed: the first one closes the block
ClosingLines(ls) ==
    {j \in 1..Len(ls) : IsDelimiterLine(ls[j]) /\ \E k \in ColonLines(ls) : k < j}

MinOf(S) == CHOOSE x \in S : \A y \in S : x <= y
MaxOf(S) == CHOOSE x \in S : \A y \in S : x >= y

\* the metadata the colon-bearing lines of the index set R give, the last occurrence
\* of a key winning
MetaOf(ls, R) ==
    LET C == R \cap ColonLines(ls) IN
    [key \in {LineKey(Trim(ls[k])) : k \in C} |->
        LineValue(Trim(ls[MaxOf({k \in C : LineKey(Trim(ls[k])) = key})]))]

\* the whole document as one text
WholeDocument(ls) == Join(ls, NewLine)

(***************************************************************************)
(* C1: for every document, the body is the lines after the computed        *)
(* closing-delimiter line joined with newlines, and the metadata holds     *)
(* exactly the entries of the colon-bearing lines strictly between the     *)
(* opening and the closing delimiter: no entry from a line outside the     *)
(* delimited block.                                                        *)
(***************************************************************************)
C1_BodyAndMetadataOfBlock ==
    parsed # NoValue =>
        LET close == pst.bodyStart
            last == IF pst.brk THEN close - 1 ELSE Len(lines)
        IN /\ parsed.body = MarkedParse(Join(SubSeq(lines, close + 1, Len(lines)), NewLine))
           /\ parsed.frontmatter =
                 IF OpeningLines(lines) = {} THEN EmptyFrontmatter
                 ELSE MetaOf(lines, (MinOf(OpeningLines(lines)) + 1)..last)

\* a document that opens a metadata block and never closes it
Unclosed(ls) == OpeningLines(ls) # {} /\ ClosingLines(ls) = {}

(***************************************************************************)
(* C2: for every document that opens a metadata block and never closes it, *)
(* the body is empty and every colon-bearing line is absorbed into the     *)
(* metadata.                                                               *)
(***************************************************************************)
C2_UnclosedBodyEmpty ==
    (parsed # NoValue /\ Unclosed(lines)) =>
        /\ parsed.body = MarkedParse(<<>>)
        /\ parsed.frontmatter = MetaOf(lines, 1..Len(lines))

\* C2 as amended: for every document that opens a metadata block and never closes
\* it, the body is the entire document, the delimiter and metadata lines included,
\* and every colon-bearing line is absorbed into the metadata.
C2_UnclosedBodyIsWholeDocument ==
    (parsed # NoValue /\ Unclosed(lines)) =>
        /\ parsed.body = MarkedParse(WholeDocument(lines))
        /\ parsed.frontmatter = MetaOf(lines, 1..Len(lines))

C2_Witness ==
    /\ parsed # NoValue
    /\ Unclosed(lines)
    /\ Cardinality(ColonLines(lines)) >= 2
    /\ Cardinality(DOMAIN parsed.frontmatter) >= 2
    /\ parsed.body = MarkedParse(WholeDocument(lines))

(***************************************************************************)
(* C3: for every document whose first line is not a delimiter, the         *)
(* metadata is empty and the body is the entire document, whatever colons  *)
(* or later delimiter lines its body holds.                                *)
(***************************************************************************)
C3_NoLeadingBlock ==
    (parsed # NoValue /\ ~IsDelimiterLine(lines[1])) =>
        /\ parsed.frontmatter = EmptyFrontmatter
        /\ parsed.body = MarkedParse(WholeDocument(lines))

RECURSIVE StripLeadingHyphens(_)
StripLeadingHyphens(s) ==
    IF s # <<>> /\ Head(s) = "-" THEN StripLeadingHyphens(Tail(s)) ELSE s

RECURSIVE StripTrailingHyphens(_)
StripTrailingHyphens(s) ==
    IF s # <<>> /\ s[Len(s)] = "-"
    THEN StripTrailingHyphens(SubSeq(s, 1, Len(s) - 1))
    ELSE s

(***************************************************************************)
(* C4: for every title, the slug is the title lowercased, stripped of the  *)
(* characters outside [a-z0-9 -], with white-space runs turned into one    *)
(* hyphen, hyphen runs collapsed and leading and trailing hyphens          *)
(* stripped: it never starts and never ends with a hyphen.                 *)
(***************************************************************************)
C4_SlugStripsHyphens ==
    spc = "returned" =>
        /\ slug = StripTrailingHyphens(StripLeadingHyphens(
                      ReplaceRuns(ReplaceRuns(StripOthers(ToLowerCase(title)),
                                              WhiteSpace), {"-"})))
        /\ slug = <<>> \/ (slug[1] # "-" /\ slug[Len(slug)] # "-")

(***************************************************************************)
(* The output of a finished build, read off the disk                       *)
(***************************************************************************)
StartsWith(s, prefix) == Len(s) >= Len(prefix) /\ SubSeq(s, 1, Len(prefix)) = prefix

\* a file pages/<name>.html directly under the pages directory
IsPageFile(p) ==
    /\ StartsWith(p, PagesPrefix)
    /\ EndsWith(p, HtmlExtension)
    /\ ~StartsWith(p, PagesImagesPrefix)

PageFiles == {p \in DOMAIN disk : IsPageFile(p)}

\* the content files of the posts directory
ContentFiles == {n \in DOMAIN files : EndsWith(n, MdExtension)}

PostSlugs == {posts[k].slug : k \in 1..Len(posts)}

\* the posts no later-processed post shares its slug with
Unshadowed == {k \in 1..Len(posts) : \A m \in 1..Len(posts) : m > k => posts[m].slug # posts[k].slug}

Mtime(post) == files[post.filename].mtime

\* the page file of the k-th post
PageOf(k) == disk[PagePath(posts[k].slug)]

\* the summary block of the k-th post on the home page
BlockOf(k) == disk[IndexPath].content.summaries[k]

Omits(post, key) == key \notin DOMAIN post.frontmatter

(***************************************************************************)
(* C5: when two content files have titles that normalize to the same slug, *)
(* a successful build leaves exactly one page file for that slug, holding  *)
(* the content of the post processed later in the modification-time-       *)
(* descending order (the older file); the collision raises no error.       *)
(***************************************************************************)
C5_CollisionLaterPostWins ==
    pc = "done" =>
        \A k, m \in 1..Len(posts) :
            (k < m /\ posts[k].slug = posts[m].slug /\ m \in Unshadowed) =>
                /\ PagePath(posts[m].slug) \in PageFiles
                /\ PageOf(m) = generatePostPage(posts[m], posts[m].slug)
                /\ Mtime(posts[m]) <= Mtime(posts[k])
                /\ Cardinality(PageFiles) < Len(posts)

C5_Witness ==
    /\ pc = "done"
    /\ \E k, m \in 1..Len(posts) :
          /\ k < m
          /\ posts[k].slug = posts[m].slug
          /\ Mtime(posts[m]) < Mtime(posts[k])
          /\ posts[k].frontmatter[KeyTitle] # posts[m].frontmatter[KeyTitle]
          /\ generatePostPage(posts[k], posts[k].slug) # PageOf(m)

(***************************************************************************)
(* C6: after a successful build there is one page per content file: the    *)
(* number of page files equals the number of content files, and for every  *)
(* post the file pages/<slug>.html holds that post's own rendered content. *)
(***************************************************************************)
C6_OnePagePerContentFile ==
    pc = "done" =>
        /\ Cardinality(PageFiles) = Cardinality(ContentFiles)
        /\ \A k \in 1..Len(posts) :
              /\ PagePath(posts[k].slug) \in PageFiles
              /\ PageOf(k) = generatePostPage(posts[k], posts[k].slug)

\* C6 as amended: after a successful build there is one page per distinct slug: one
\* post per content file, as many page files as the posts have distinct slugs (as
\* many as content files when no two slugs collide), and for every post whose slug
\* no later-processed post shares, pages/<slug>.html holds that post's own content.
C6_OnePagePerSlug ==
    pc = "done" =>
        /\ Len(posts) = Cardinality(ContentFiles)
        /\ {posts[k].filename : k \in 1..Len(posts)} = ContentFiles
        /\ Cardinality(PageFiles) = Cardinality(PostSlugs)
        /\ PageFiles = {PagePath(s) : s \in PostSlugs}
        /\ Cardinality(PostSlugs) = Len(posts) =>
              Cardinality(PageFiles) = Cardinality(ContentFiles)
        /\ \A k \in Unshadowed : PageOf(k) = generatePostPage(posts[k], posts[k].slug)

C6_Witness ==
    /\ pc = "done"
    /\ Len(posts) >= 2
    /\ Cardinality(PostSlugs) = Len(posts)
    /\ FileNotes \in DOMAIN files
    /\ Cardinality(PageFiles) = Len(posts)
    /\ PageOf(1) # PageOf(2)

(***************************************************************************)
(* C7: for every post page, the canonical URL and og:url are the origin    *)
(* followed by /pages/<slug>.html for the slug under which the build       *)
(* writes the page and lists it in the sitemap, posts without a title      *)
(* included; for the home page they are the bare origin.                   *)
(***************************************************************************)
C7_CanonicalUrlIsPageUrl ==
    pc = "done" =>
        /\ disk[IndexPath].canonical = Origin
        /\ disk[IndexPath].ogUrl = Origin
        /\ \A k \in Unshadowed :
              /\ PageOf(k).canonical = Origin \o PagesUrlPath \o posts[k].slug \o HtmlExtension
              /\ PageOf(k).ogUrl = PageOf(k).canonical
              /\ PageOf(k).canonical = disk[SitemapPath].urlset[k + 1].loc

\* the fields with a documented fallback: the key and the literal
FallbackOf ==
    << <<KeyTitle, UntitledPost>>, <<KeyDate, NoDate>>,
       <<KeyReadTime, DefaultReadTime>>, <<KeySummary, NoSummary>> >>

\* the texts a post page displays or declares
ShownOnPage(page) ==
    { page.title, page.ogTitle, page.twitterTitle, page.description, page.keywords,
      page.content.h1, page.content.date, page.content.readTime }

(***************************************************************************)
(* C8: for each of title, date, readTime and summary, when the key is      *)
(* omitted from a post's frontmatter, the post's rendered page shows the   *)
(* fallback literal of that field and never an empty string.               *)
(***************************************************************************)
C8_PageShowsEveryFallback ==
    pc = "done" =>
        \A k \in Unshadowed : \A f \in 1..Len(FallbackOf) :
            Omits(posts[k], FallbackOf[f][1]) =>
                /\ FallbackOf[f][2] \in ShownOnPage(PageOf(k))
                /\ <<>> \notin ShownOnPage(PageOf(k))

\* C8 as amended: when title, date or readTime is omitted, the post page (its heading
\* and post-meta line) and the post's summary block on the home page show the
\* fallback literal; when summary is omitted, the summary block on the home page
\* shows 'No summary available.', and the post page, which displays no summary,
\* declares the fixed default description; none of these is an empty string.
C8_FallbacksWhereDisplayed ==
    pc = "done" =>
        \A k \in 1..Len(posts) :
            /\ Omits(posts[k], KeyTitle) =>
                  /\ BlockOf(k).postTitle = UntitledPost
                  /\ k \in Unshadowed => PageOf(k).content.h1 = UntitledPost
            /\ Omits(posts[k], KeyDate) =>
                  /\ BlockOf(k).date = NoDate
                  /\ k \in Unshadowed => PageOf(k).content.date = NoDate
            /\ Omits(posts[k], KeyReadTime) =>
                  /\ BlockOf(k).readTime = DefaultReadTime
                  /\ k \in Unshadowed => PageOf(k).content.readTime = DefaultReadTime
            /\ Omits(posts[k], KeySummary) =>
                  /\ BlockOf(k).postSummary = NoSummary
                  /\ k \in Unshadowed =>
                        /\ PageOf(k).description = DefaultDescription
                        /\ NoSummary \notin ShownOnPage(PageOf(k))
            /\ <<>> \notin {BlockOf(k).postTitle, BlockOf(k).date, BlockOf(k).readTime,
                            BlockOf(k).postSummary}
            /\ k \in Unshadowed => <<>> \notin ShownOnPage(PageOf(k))

C8_Witness ==
    /\ pc = "done"
    /\ \E k \in Unshadowed :
          /\ posts[k].frontmatter = EmptyFrontmatter
          /\ PageOf(k).content.h1 = UntitledPost
          /\ BlockOf(k).postSummary = NoSummary
    /\ \E k \in Unshadowed :
          /\ Omits(posts[k], KeySummary)
          /\ ~Omits(posts[k], KeyDate)
          /\ PageOf(k).content.date # NoDate
          /\ PageOf(k).description = DefaultDescription

(***************************************************************************)
(* C9: for a post whose frontmatter has no title, the title falls back to  *)
(* 'Untitled Post' in every place the page carries its title: the heading  *)
(* and the document title, og:title and twitter:title.                     *)
(***************************************************************************)
C9_UntitledEverywhere ==
    pc = "done" =>
        \A k \in Unshadowed :
            Omits(posts[k], KeyTitle) =>
                /\ PageOf(k).content.h1 = UntitledPost
                /\ PageOf(k).title = UntitledPost
                /\ PageOf(k).ogTitle = UntitledPost
                /\ PageOf(k).twitterTitle = UntitledPost

(***************************************************************************)
(* C10: the posts appear in the home-page list and in the sitemap in the   *)
(* same order, and that order is descending source-file modification time, *)
(* whatever the frontmatter dates are.                                     *)
(***************************************************************************)
C10_IndexAndSitemapByMtime ==
    pc = "done" =>
        LET summaries == disk[IndexPath].content.summaries
            urls == disk[SitemapPath].urlset
            n == Cardinality(ContentFiles)
        IN /\ Len(summaries) = n
           /\ Len(urls) = n + 1
           /\ \E order \in Listings(ContentFiles) :
                 /\ \A k, m \in 1..n : k < m => files[order[k]].mtime >= files[order[m]].mtime
                 /\ \A k \in 1..n :
                       LET post == MakePost(files, order[k]) IN
                       /\ summaries[k] = generatePostSummaryHTML(post, post.slug)
                       /\ urls[k + 1].loc = Origin \o <<"/">> \o summaries[k].href

C10_Witness ==
    /\ pc = "done"
    /\ Len(posts) = 2
    /\ Mtime(posts[1]) > Mtime(posts[2])
    /\ BlockOf(1).date = <<"1">>
    /\ BlockOf(2).date = <<"2">>
    /\ disk[SitemapPath].urlset[2].loc = Origin \o <<"/">> \o BlockOf(1).href

(***************************************************************************)
(* C11: for a build over N content files the sitemap holds exactly N + 1   *)
(* url entries: the root entry first, with priority 1.0 and changefreq     *)
(* weekly, then one entry per post with priority 0.8 and changefreq        *)
(* monthly whose loc is the origin, /pages/, the post's slug and .html.    *)
(***************************************************************************)
C11_SitemapEntries ==
    pc = "done" =>
        LET urls == disk[SitemapPath].urlset
            n == Cardinality(ContentFiles)
        IN /\ Len(urls) = n + 1
           /\ urls[1].priority = "1.0"
           /\ urls[1].changefreq = "weekly"
           /\ \E order \in Listings(ContentFiles) :
                 \A k \in 1..n :
                    /\ urls[k + 1].priority = "0.8"
                    /\ urls[k + 1].changefreq = "monthly"
                    /\ urls[k + 1].loc =
                          Origin \o PagesUrlPath \o MakePost(files, order[k]).slug
                                 \o HtmlExtension

C11_Witness ==
    /\ pc = "done"
    /\ Cardinality(ContentFiles) = 2
    /\ Len(disk[SitemapPath].urlset) = 3
    /\ disk[SitemapPath].urlset[2].loc # disk[SitemapPath].urlset[3].loc

(***************************************************************************)
(* C12: a filesystem error in any step of the build aborts the run at      *)
(* once: the step that threw performs nothing more, no later step and no   *)
(* later file operation of the run happens, and the run ends failed, never *)
(* done.                                                                   *)
(***************************************************************************)
C12_ErrorAbortsRun ==
    [][ /\ pc = "failed" => UNCHANGED vars
        /\ (pc' = "failed" /\ pc \in {"start", "discover", "parse", "pages",
                                      "index", "sitemap"})
              => UNCHANGED <<disk, writes, dirs, posts, next>>
        /\ (pc' = "failed" /\ pc = "assets")
              => /\ Len(writes') < Len(writes)
                                    + Cardinality(ImageEntries)
                                    + (IF BackPng \in images.names THEN 1 ELSE 0)
                 /\ SubSeq(writes', 1, Len(writes)) = writes ]_vars

C12_Witness ==
    /\ pc = "failed"
    /\ Len(posts) = 2
    /\ Len(writes) = 1
    /\ IndexPath \notin DOMAIN disk

\* the content the run wrote last to a path of its log of writes
WrittenByRun(path) ==
    LET ks == {k \in 1..(next - 1) : PagePath(posts[k].slug) = path} IN
    IF path = IndexPath THEN IndexHTML(posts)
    ELSE IF ks # {} THEN generatePostPage(posts[MaxOf(ks)], posts[MaxOf(ks)].slug)
    ELSE IF path = BackPng THEN Asset(BackPng)
    ELSE Asset(CHOOSE name \in images.names : PagesImagesPrefix \o name = path)

(***************************************************************************)
(* C13: when a run has aborted on an error, every file the run had written *)
(* before (pages, copied assets, index.html) is on disk with the content   *)
(* the run wrote: nothing is rolled back or cleaned up.                    *)
(***************************************************************************)
C13_NoRollback ==
    pc = "failed" =>
        \A k \in 1..Len(writes) :
            /\ writes[k] \in DOMAIN disk
            /\ disk[writes[k]] = WrittenByRun(writes[k])

C13_Witness ==
    /\ pc = "failed"
    /\ Len(posts) = 2
    /\ posts[1].slug # posts[2].slug
    /\ PagePath(posts[1].slug) \in DOMAIN disk
    /\ PagePath(posts[2].slug) \in DOMAIN disk
    /\ PagesImagesPrefix \o APng \in DOMAIN disk
    /\ IndexPath \in DOMAIN disk
    /\ SitemapPath \notin DOMAIN disk

\* a sitemap without its lastmod values
WithoutLastmod(sitemap) ==
    [k \in 1..Len(sitemap.urlset) |->
        [ loc        |-> sitemap.urlset[k].loc,
          changefreq |-> sitemap.urlset[k].changefreq,
          priority   |-> sitemap.urlset[k].priority ]]

(***************************************************************************)
(* C14: after a second run of the build on unchanged inputs, every         *)
(* generated file (the pages, index.html, the copied assets) is identical  *)
(* to what the first run left, and sitemap.xml differs from the first      *)
(* run's at most in its lastmod values.                                    *)
(***************************************************************************)
C14_RerunIdempotent ==
    (pc = "done" /\ prev # NoValue) =>
        /\ DOMAIN disk = DOMAIN prev.disk
        /\ \A p \in DOMAIN disk \ {SitemapPath} : disk[p] = prev.disk[p]
        /\ WithoutLastmod(disk[SitemapPath]) = WithoutLastmod(prev.disk[SitemapPath])

C14_Witness ==
    /\ pc = "done"
    /\ prev # NoValue
    /\ Len(posts) = 2
    /\ Mtime(posts[1]) = Mtime(posts[2])
    /\ posts[1].slug = posts[2].slug
    /\ PagesImagesPrefix \o APng \in DOMAIN disk
    /\ disk[SitemapPath] # prev.disk[SitemapPath]

\* the number of occurrences of a token in a body
Occurrences(body, tok) == Cardinality({k \in 1..Len(body) : body[k] = tok})

\* the positions of the wrapper tokens that wrap a table tag: a container opening
\* directly before an opening table tag, a container closing directly after a
\* closing table tag
WrapperPositions(body) ==
    {k \in 1..Len(body) :
        \/ body[k] = WrapperOpen /\ k < Len(body) /\ body[k + 1] = TableOpen
        \/ body[k] = WrapperClose /\ k > 1 /\ body[k - 1] = TableClose}

\* a body with the tokens at the positions D deleted
RECURSIVE DeletePositions(_, _)
DeletePositions(body, D) ==
    IF body = <<>> THEN <<>>
    ELSE DeletePositions(SubSeq(body, 1, Len(body) - 1), D)
         \o (IF Len(body) \in D THEN <<>> ELSE <<body[Len(body)]>>)

(***************************************************************************)
(* C15: for every rendered body with N occurrences of the opening table    *)
(* tag, the post-processed body has exactly N opening table tags, each     *)
(* directly preceded by the scroll-container opening, every closing table  *)
(* tag is directly followed by the container closing, and deleting the     *)
(* inserted wrapper text gives back the original body.                     *)
(***************************************************************************)
C15_TableWrapLaw ==
    wpc = "returned" =>
        /\ Occurrences(wrapped, TableOpen) = Occurrences(rendered, TableOpen)
        /\ Occurrences(wrapped, TableClose) = Occurrences(rendered, TableClose)
        /\ \A k \in 1..Len(wrapped) :
              wrapped[k] = TableOpen => k > 1 /\ wrapped[k - 1] = WrapperOpen
        /\ \A k \in 1..Len(wrapped) :
              wrapped[k] = TableClose => k < Len(wrapped) /\ wrapped[k + 1] = WrapperClose
        /\ Len(wrapped) = Len(rendered) + Occurrences(rendered, TableOpen)
                                        + Occurrences(rendered, TableClose)
        /\ DeletePositions(wrapped, WrapperPositions(wrapped)) = rendered

C15_Witness ==
    /\ wpc = "returned"
    /\ Occurrences(rendered, TableOpen) = 2
    /\ Occurrences(rendered, TableClose) = 1
    /\ Len(wrapped) = 6

\* the stage of the build a written path belongs to
Stage(path) ==
    IF path = SitemapPath THEN 4
    ELSE IF path = IndexPath THEN 3
    ELSE IF IsPageFile(path) THEN 1
    ELSE 2

\* the number of page writes in the log of writes
PageWrites == Cardinality({k \in 1..Len(writes) : Stage(writes[k]) = 1})

(***************************************************************************)
(* C16: the build is strictly staged: every content file is parsed into a  *)
(* post before any page is written, every page is written before any asset *)
(* is copied, and index.html and then sitemap.xml are written only after   *)
(* all the page writes and the asset copy.                                 *)
(***************************************************************************)
C16_StrictlyStaged ==
    /\ writes # <<>> => Len(posts) = Cardinality(ContentFiles)
    /\ \A k, m \in 1..Len(writes) : k < m => Stage(writes[k]) <= Stage(writes[m])
    /\ \A k \in 1..Len(writes) :
          Stage(writes[k]) >= 2 => PageWrites = Cardinality(ContentFiles)
    /\ \A k \in 1..Len(writes) :
          (Stage(writes[k]) >= 3 /\ images.exists) =>
              \A name \in images.names :
                 \E m \in 1..(k - 1) : writes[m] = PagesImagesPrefix \o name

C16_Witness ==
    /\ pc = "done"
    /\ Len(posts) = 2
    /\ Len(writes) = 7
    /\ Stage(writes[2]) = 1
    /\ Stage(writes[3]) = 2
    /\ writes[6] = IndexPath
    /\ writes[7] = SitemapPath

\* a metadata value as the claim has it: the frontmatter's when it supplies one,
\* the canned literal otherwise
Supplies(fm, key) == key \in DOMAIN fm /\ fm[key] # <<>>
SuppliedOr(fm, key, canned) == IF Supplies(fm, key) THEN fm[key] ELSE canned

\* the documents of a finished build that generateHTMLTemplate produced, each with
\* the frontmatter it was produced from
GeneratedDocuments ==
    {[document |-> disk[IndexPath], frontmatter |-> EmptyFrontmatter]}
    \cup {[document |-> PageOf(k), frontmatter |-> posts[k].frontmatter] : k \in Unshadowed}

(***************************************************************************)
(* C17: in every document generateHTMLTemplate produces, the description,  *)
(* keywords, author and image metadata are the frontmatter's summary,      *)
(* keywords, author and image when the frontmatter supplies them, and the  *)
(* fixed canned literal only when it omits them.                           *)
(***************************************************************************)
C17_MetadataFromFrontmatter ==
    pc = "done" =>
        \A g \in GeneratedDocuments :
            /\ g.document.description =
                  SuppliedOr(g.frontmatter, KeySummary, DefaultDescription)
            /\ g.document.keywords =
                  SuppliedOr(g.frontmatter, KeyKeywords, DefaultKeywords)
            /\ g.document.author = SuppliedOr(g.frontmatter, KeyAuthor, Author)
            /\ g.document.image = SuppliedOr(g.frontmatter, KeyImage, DefaultImage)

\* C17 as amended: in every document generateHTMLTemplate produces, the description,
\* keywords and image metadata are the frontmatter's summary, keywords and image when
\* it supplies a non-empty one and the canned literal otherwise; the author is the
\* fixed literal whatever the frontmatter holds under the key author.
C17_AuthorAlwaysFixed ==
    pc = "done" =>
        \A g \in GeneratedDocuments :
            /\ g.document.description =
                  SuppliedOr(g.frontmatter, KeySummary, DefaultDescription)
            /\ g.document.keywords =
                  SuppliedOr(g.frontmatter, KeyKeywords, DefaultKeywords)
            /\ g.document.author = Author
            /\ g.document.image = SuppliedOr(g.frontmatter, KeyImage, DefaultImage)

C17_Witness ==
    /\ pc = "done"
    /\ \E g \in GeneratedDocuments :
          /\ Supplies(g.frontmatter, KeyAuthor)
          /\ g.frontmatter[KeyAuthor] # Author
          /\ g.document.author = Author
          /\ g.document.description = <<"s">>
          /\ g.document.keywords = <<"k">>
          /\ g.document.image = <<"i">>
    /\ \E g \in GeneratedDocuments :
          /\ g.document.backLink
          /\ ~Supplies(g.frontmatter, KeySummary)
          /\ g.document.description = DefaultDescription
          /\ g.document.image = DefaultImage

\* the files of the images directory tree, as paths relative to it
AssetTree == images.names \cup images.nested

(***************************************************************************)
(* C18: a build over an existing images directory completes also when the  *)
(* directory holds a subdirectory (the asset copy can run to its end), and *)
(* after it every file of the images directory tree, the files of nested   *)
(* subdirectories included, has a copy at the same relative path under     *)
(* pages/images.                                                           *)
(***************************************************************************)
C18_AssetTreeCopied ==
    /\ (pc = "assets" /\ images.exists) => ENABLED CopyStaticAssets
    /\ (pc = "done" /\ images.exists) =>
          \A f \in AssetTree :
             /\ PagesImagesPrefix \o f \in DOMAIN disk
             /\ disk[PagesImagesPrefix \o f] = Asset(f)

\* the first colon of a line, and the texts on its two sides
FirstColon(l) == MinOf({k \in 1..Len(l) : l[k] = Colon})
BeforeFirstColon(l) == Trim(SubSeq(l, 1, FirstColon(l) - 1))
AfterFirstColon(l) == Trim(SubSeq(l, FirstColon(l) + 1, Len(l)))

(***************************************************************************)
(* C19: inside the metadata block, a line holding a colon is split at its  *)
(* first colon only: once the loop has taken the line, the metadata holds, *)
(* under the trimmed text before that colon, the trimmed text after it,    *)
(* later colons included.                                                  *)
(***************************************************************************)
C19_SplitAtFirstColon ==
    (/\ parsed = NoValue
     /\ ~pst.brk
     /\ pst.i >= 1
     /\ IsColonLine(lines[pst.i])
     /\ \E o \in OpeningLines(lines) : o < pst.i) =>
        LET l == Trim(lines[pst.i]) IN
        /\ BeforeFirstColon(l) \in DOMAIN pst.frontmatter
        /\ pst.frontmatter[BeforeFirstColon(l)] = AfterFirstColon(l)

C19_Witness ==
    /\ parsed = NoValue
    /\ ~pst.brk
    /\ pst.i = 2
    /\ IsDelimiterLine(lines[1])
    /\ lines[2] = <<"a", ":", "y", ":", "z">>
    /\ pst.frontmatter = [k \in {<<"a">>} |-> <<"y", ":", "z">>]

\* the lines the loop has taken for keys when it has ended
TakenLines ==
    ColonLines(lines) \cap (1..(IF pst.brk THEN pst.bodyStart - 1 ELSE Len(lines)))

(***************************************************************************)
(* C20: when the same key occurs on several metadata lines of a document,  *)
(* the parsed metadata holds one entry for the key, its value that of the  *)
(* last occurrence, and the parse ends with the ordinary result: no error  *)
(* or warning.                                                             *)
(***************************************************************************)
C20_LastOccurrenceWins ==
    parsed # NoValue =>
        /\ DOMAIN parsed = {"frontmatter", "body"}
        /\ DOMAIN parsed.frontmatter =
              {BeforeFirstColon(Trim(lines[k])) : k \in TakenLines}
        /\ \A k \in TakenLines :
              LET key == BeforeFirstColon(Trim(lines[k]))
                  last == MaxOf({m \in TakenLines :
                                   BeforeFirstColon(Trim(lines[m])) = key})
              IN parsed.frontmatter[key] = AfterFirstColon(Trim(lines[last]))

C20_Witness ==
    /\ parsed # NoValue
    /\ \E k, m \in TakenLines :
          /\ k < m
          /\ BeforeFirstColon(Trim(lines[k])) = BeforeFirstColon(Trim(lines[m]))
          /\ AfterFirstColon(Trim(lines[k])) # AfterFirstColon(Trim(lines[m]))
          /\ parsed.frontmatter[BeforeFirstColon(Trim(lines[k]))]
                = AfterFirstColon(Trim(lines[m]))

(***************************************************************************)
(* C21: every slug generateSlug returns is URL-safe: all its characters    *)
(* are lowercase letters, digits or hyphens (so no whitespace and no       *)
(* uppercase letter), and no two consecutive characters are hyphens.       *)
(***************************************************************************)
C21_SlugUrlSafe ==
    spc = "returned" =>
        /\ \A k \in 1..Len(slug) : slug[k] \in LowerSet \cup Digits \cup {"-"}
        /\ \A k \in 1..(Len(slug) - 1) : ~(slug[k] = "-" /\ slug[k + 1] = "-")

C21_Witness ==
    /\ spc = "returned"
    /\ title = <<"B", "!", " ", "-">>
    /\ slug = <<"b", "-">>

(***************************************************************************)
(* C22: parseMarkdownFile is total over document texts: for every          *)
(* document, however malformed (no delimiter, an unclosed block, only      *)
(* delimiters, lines without a colon, the empty file), the parse comes to  *)
(* its end and yields a result of metadata and body.                       *)
(***************************************************************************)
C22_ParserTotal ==
    <>(parsed # NoValue /\ DOMAIN parsed = {"frontmatter", "body"})

C22_Witness ==
    /\ lines = << <<>> >>
    /\ parsed # NoValue
    /\ parsed.frontmatter = EmptyFrontmatter
    /\ parsed.body = MarkedParse(<<>>)

(***************************************************************************)
(* C23: the metadata block ends at the first delimiter line met after at   *)
(* least one key has been parsed; a delimiter line met while no key has    *)
(* been parsed is skipped and never ends the block, so a block without a   *)
(* colon-bearing line is not closed by its second delimiter; the body is   *)
(* the lines strictly after the closing delimiter.                         *)
(***************************************************************************)
C23_BlockEndsAfterFirstKey ==
    parsed # NoValue =>
        IF ClosingLines(lines) # {}
        THEN LET close == MinOf(ClosingLines(lines)) IN
             /\ pst.brk
             /\ pst.bodyStart = close
             /\ parsed.body =
                   MarkedParse(Join(SubSeq(lines, close + 1, Len(lines)), NewLine))
        ELSE /\ ~pst.brk
             /\ pst.bodyStart = 0

C23_Witness ==
    /\ parsed # NoValue
    /\ lines = << <<"-", "-", "-">>, <<"-", "-", "-">>, <<"a", ":", " ", "x">>,
                  <<"-", "-", "-">> >>
    /\ pst.bodyStart = 4
    /\ parsed.body = MarkedParse(<<>>)

\* a filename without its trailing extension .md
WithoutExtension(filename) == SubSeq(filename, 1, Len(filename) - Len(MdExtension))

(***************************************************************************)
(* C24: for every content file whose frontmatter has no title, the post's  *)
(* slug is generateSlug of the filename without its trailing .md (an       *)
(* earlier .md inside the name is kept), and the page is written to        *)
(* pages/<that slug>.html.                                                 *)
(***************************************************************************)
C24_UntitledSlugFromFilename ==
    pc = "done" =>
        \A k \in 1..Len(posts) :
            ~Supplies(posts[k].frontmatter, KeyTitle) =>
                LET s == generateSlug(WithoutExtension(posts[k].filename)) IN
                /\ posts[k].slug = s
                /\ PagePath(s) \in DOMAIN disk

(***************************************************************************)
(* C25: every url entry of a generated sitemap carries the same lastmod    *)
(* value, a date of the build invocation that wrote it, whatever the       *)
(* posts' frontmatter dates and file modification times are.               *)
(***************************************************************************)
C25_OneLastmod ==
    pc = "done" =>
        LET urls == disk[SitemapPath].urlset IN
        /\ urls[1].lastmod \in Dates
        /\ \A k \in 1..Len(urls) : urls[k].lastmod = urls[1].lastmod

C25_Witness ==
    /\ pc = "done"
    /\ Len(posts) = 2
    /\ Mtime(posts[1]) = 2
    /\ Mtime(posts[2]) = 1
    /\ BlockOf(1).date = <<"1">>
    /\ BlockOf(2).date = <<"2">>
    /\ \A k \in 1..3 : disk[SitemapPath].urlset[k].lastmod = 1

\* the output files as the run found them: none in a first run, those the run
\* before left in a rerun
DiskAtStart == IF prev = NoValue THEN EmptyDisk ELSE prev.disk

(***************************************************************************)
(* C26: if listing, stat-ing, reading or rendering a content file fails,   *)
(* the run has written no output file when it aborts: no page, no copied   *)
(* asset, no index.html and no sitemap.xml has been created or changed by  *)
(* the run, all parsing coming before the first write.                     *)
(***************************************************************************)
C26_ParseFailureWritesNothing ==
    [][ (pc \in {"discover", "parse"} /\ pc' = "failed")
           => /\ writes' = <<>>
              /\ disk' = DiskAtStart ]_vars

C26_Witness ==
    /\ pc = "failed"
    /\ Len(markdownFiles) = 2
    /\ posts = <<>>
    /\ writes = <<>>
    /\ prev # NoValue
    /\ disk = prev.disk
    /\ Cardinality(PageFiles) = 2

(***************************************************************************)
(* C27: after every successful build there is no dangling link: each href  *)
(* of the home page's summary blocks and each post loc of sitemap.xml      *)
(* names a page file that exists in the output directory.                  *)
(***************************************************************************)
C27_NoDanglingLink ==
    pc = "done" =>
        LET summaries == disk[IndexPath].content.summaries
            urls == disk[SitemapPath].urlset
        IN /\ \A k \in 1..Len(summaries) : summaries[k].href \in PageFiles
           /\ \A k \in 2..Len(urls) :
                 \E p \in PageFiles : urls[k].loc = Origin \o <<"/">> \o p

C27_Witness ==
    /\ pc = "done"
    /\ Len(posts) = 2
    /\ posts[1].filename = FileAX
    /\ Omits(posts[1], KeyTitle)
    /\ ~Omits(posts[2], KeyTitle)
    /\ BlockOf(1).href \in PageFiles
    /\ BlockOf(2).href \in PageFiles
    /\ BlockOf(1).href # BlockOf(2).href
    /\ Len(disk[SitemapPath].urlset) = 3

(***************************************************************************)
(* C28: a build only creates or overwrites files: no step deletes a file   *)
(* of the output tree or changes a content file or an asset source, and a  *)
(* file already in the output tree is changed by a step only when its path *)
(* is a target of a write of that step; every other file, the page of a    *)
(* post removed since the build before for one, is left as it was.         *)
(***************************************************************************)
C28_OnlyCreatesOrOverwrites ==
    [][ /\ files' = files
        /\ images' = images
        /\ \A p \in DOMAIN disk :
              /\ p \in DOMAIN disk'
              /\ disk'[p] # disk[p] =>
                    \E k \in (Len(writes) + 1)..Len(writes') : writes'[k] = p ]_vars

C28_Witness ==
    /\ pc = "done"
    /\ PagePath(OldSlug) \notin {writes[k] : k \in 1..Len(writes)}
    /\ disk[PagePath(OldSlug)] = Stale(PagePath(OldSlug))
    /\ PagePath(<<"a", "-", "b">>) \in {writes[k] : k \in 1..Len(writes)}
    /\ disk[PagePath(<<"a", "-", "b">>)] # Stale(PagePath(<<"a", "-", "b">>))
    /\ disk[IndexPath] # Stale(IndexPath)
    /\ PagesImagesPrefix \o APng \in DOMAIN disk

\* the colon-bearing lines before the closing delimiter of a document that has one
LinesBeforeClose(ls) == {k \in ColonLines(ls) : k < MinOf(ClosingLines(ls))}

(***************************************************************************)
(* C29: once the metadata block has been closed by its closing delimiter,  *)
(* no later line of the document changes the metadata: the parsed metadata *)
(* is that of the colon-bearing lines before the closing delimiter alone,  *)
(* and the body starts right after that delimiter, whatever colon-bearing  *)
(* lines and '---' lines follow it.                                        *)
(***************************************************************************)
C29_ClosedBlockIsFinal ==
    (parsed # NoValue /\ ClosingLines(lines) # {}) =>
        /\ pst.bodyStart = MinOf(ClosingLines(lines))
        /\ DOMAIN parsed.frontmatter =
              {BeforeFirstColon(Trim(lines[k])) : k \in LinesBeforeClose(lines)}
        /\ \A k \in LinesBeforeClose(lines) :
              LET key == BeforeFirstColon(Trim(lines[k]))
                  last == MaxOf({m \in LinesBeforeClose(lines) :
                                   BeforeFirstColon(Trim(lines[m])) = key})
              IN parsed.frontmatter[key] = AfterFirstColon(Trim(lines[last]))

C29_Witness ==
    /\ parsed # NoValue
    /\ lines = << <<"a", ":", " ", "x">>, <<"-", "-", "-">>,
                  <<"b", " ", ":", "w">>, <<"-", "-", "-">> >>
    /\ pst.bodyStart = 2
    /\ parsed.frontmatter = [k \in {<<"a">>} |-> <<"x">>]

(***************************************************************************)
(* C30: generateSlug is idempotent: for every title, generateSlug of the   *)
(* slug it returned is that slug again.                                    *)
(***************************************************************************)
C30_SlugIdempotent ==
    spc = "returned" => generateSlug(slug) = slug

C30_Witness ==
    /\ spc = "returned"
    /\ title = <<" ", "-", "B", "!">>
    /\ slug = <<"-", "b">>
    /\ generateSlug(slug) = <<"-", "b">>

====
